---- MODULE Spec2Model ----
(***************************************************************************)
(* Watchdog: a debugging wrapper around malloc/calloc/realloc/free/exit/   *)
(* abort (src/src/Watchdog.c).  The model keeps the process-global state   *)
(* of the tracker (the registry of info_t records, each with its chain of  *)
(* trace_t records, and the five counters), the raw heap with the chunk_t  *)
(* header that links a user pointer back to its info_t, and the C          *)
(* library's list of atexit handlers.                                      *)
(*                                                                         *)
(* The program is single-threaded: every instrumented call runs to its     *)
(* return (or to abort) before anything else happens, so each call is one  *)
(* action.  exit() then calls the registered handlers one after another;   *)
(* each handler is one action.                                             *)
(*                                                                         *)
(* assert() is modelled as compiled in (no NDEBUG): a failed assertion     *)
(* aborts the process.  __watchdog_log_call only writes to the output      *)
(* stream and is not modelled beyond the stream being open.  size_t sums   *)
(* are sums of naturals: the bounded runs stay far below SIZE_MAX.         *)
(***************************************************************************)
EXTENDS Integers, Sequences, FiniteSets, TLC

\* Bounds of the model: the trace_t records the calls of a run may create in
\* all, and the raw chunks the heap can hold at once.
MaxCalls == 3
NumAddrs == 2

\* Inputs of the instrumented calls.
Sizes == {100, 250}
Files == {"fileA"}
Lines == {10}

NULL == 0
Addrs == 1 .. NumAddrs

VARIABLES
    pc,                   \* "running" | "exiting" | "exited" | "aborted"
    cfg,                  \* WATCHDOG_OUTPUT, WATCHDOG_REPORT, WATCHDOG_GC
    stream,               \* __stream
    initialized,          \* __initialized
    info_list,            \* __info_list: the registry, front first
    heap,                 \* raw chunks: address -> chunk header (chunk->info)
    allocations_counter,  \* __allocations_counter
    frees_counter,        \* __frees_counter
    bytes_allocated,      \* __bytes_allocated
    bytes_freed,          \* __bytes_freed
    bytes_collected,      \* __bytes_collected
    atexit_list,          \* handlers registered with atexit, in registration order
    ran,                  \* handlers exit() has called so far, in call order
    report_out,           \* what __watchdog_report printed, <<>> before
    freed_records,        \* what __watchdog_terminate freed and deleted, in order
    last                  \* the last instrumented call: its arguments, whether it
                          \* returned, and what it returned

vars == <<pc, cfg, stream, initialized, info_list, heap, allocations_counter,
          frees_counter, bytes_allocated, bytes_freed, bytes_collected,
          atexit_list, ran, report_out, freed_records, last>>

----------------------------------------------------------------------------
\* call_t
CALL_MALLOC == "malloc"
CALL_CALLOC == "calloc"
CALL_REALLOC == "realloc"
CALL_FREE == "free"
CALL_EXIT == "exit"
CALL_ABORT == "abort"

\* trace_t
trace_t(func, file, line, size) ==
    [func |-> func, file |-> file, line |-> line, size |-> size]

\* info_t
info_t(trace_list, address, allocated) ==
    [trace_list |-> trace_list, address |-> address, allocated |-> allocated]

\* Chunk header values: no raw chunk at the address, a raw chunk whose
\* header was not written yet, or the index in the registry of its info_t.
NoChunk == 0
Uninit == -1

----------------------------------------------------------------------------
\* Chain: the container behind the registry and the trace lists.
chain_new == <<>>

chain_push(self, data) == Append(self, data)

chain_back(self) == self[Len(self)]

chain_pop(self) == Tail(self)

\* The element chain_pop hands out through its second argument.
chain_pop_data(self) == Head(self)

----------------------------------------------------------------------------
\* The tracker state the internal functions read and write.
Tracker ==
    [info_list |-> info_list, heap |-> heap,
     allocations_counter |-> allocations_counter,
     frees_counter |-> frees_counter,
     bytes_allocated |-> bytes_allocated,
     bytes_freed |-> bytes_freed]

SetTracker(t) ==
    /\ info_list' = t.info_list
    /\ heap' = t.heap
    /\ allocations_counter' = t.allocations_counter
    /\ frees_counter' = t.frees_counter
    /\ bytes_allocated' = t.bytes_allocated
    /\ bytes_freed' = t.bytes_freed

\* What an internal function hands back: the tracker state it leaves, its
\* return value, and whether an assertion aborted the process inside it.
Outcome(t, ret, aborted) == [t |-> t, ret |-> ret, aborted |-> aborted]

RECURSIVE SumSeq(_)
SumSeq(s) == IF s = <<>> THEN 0 ELSE s[1] + SumSeq(Tail(s))

\* The trace_t records in the registry.
TotalTraces(list) == SumSeq([i \in 1 .. Len(list) |-> Len(list[i].trace_list)])

FreeAddrs(h) == {a \in Addrs : h[a] = NoChunk}

\* The user pointers that are valid arguments of realloc and free: a live
\* raw chunk whose header names an info_t.
LivePtrs(h) == {a \in Addrs : h[a] >= 1}

----------------------------------------------------------------------------
\* Raw allocator results: "raw" is NULL when malloc/calloc/realloc fails and
\* the address of the chunk otherwise.  "book" names the bookkeeping malloc
\* that fails, if any: "info", "trace" or "none".
BookFailures == {"none", "info", "trace"}

\* Faulty variant: a failed bookkeeping malloc is handed back as a failed call.
allocate_tracked_returns_null(t, size, clear, file, line, raw, book) ==
    IF book \in {"info", "trace"}
    THEN Outcome([t EXCEPT !.heap[raw] = Uninit], NULL, FALSE)
    ELSE
        LET trace == trace_t(IF clear THEN CALL_CALLOC ELSE CALL_MALLOC,
                             file, line, size)
            info == info_t(chain_push(chain_new, trace), raw, TRUE)
            list == chain_push(t.info_list, info)
        IN  Outcome([t EXCEPT !.info_list = list,
                              !.heap[raw] = Len(list),
                              !.bytes_allocated = @ + size,
                              !.allocations_counter = @ + 1],
                    raw, FALSE)

\* __watchdog_allocate once the raw chunk is there: the info_t, its first
\* trace_t, the registration, the header and the counters.  Either assert
\* aborts with the raw chunk allocated and its header not yet written.
allocate_tracked(t, size, clear, file, line, raw, book) ==
    IF book \in {"info", "trace"}
    THEN Outcome([t EXCEPT !.heap[raw] = Uninit], NULL, TRUE)
    ELSE
        LET trace == trace_t(IF clear THEN CALL_CALLOC ELSE CALL_MALLOC,
                             file, line, size)
            info == info_t(chain_push(chain_new, trace), raw, TRUE)
            list == chain_push(t.info_list, info)
        IN  Outcome([t EXCEPT !.info_list = list,
                              !.heap[raw] = Len(list),
                              !.bytes_allocated = @ + size,
                              !.allocations_counter = @ + 1],
                    raw, FALSE)

\* Faulty variant: the request is counted before the raw allocation is checked.
__watchdog_allocate_counts_first(t, size, clear, file, line, raw, book) ==
    LET u == [t EXCEPT !.bytes_allocated = @ + size,
                       !.allocations_counter = @ + 1]
    IN  IF raw = NULL THEN Outcome(u, NULL, FALSE)
        ELSE LET r == allocate_tracked(t, size, clear, file, line, raw, book)
             IN  r

__watchdog_allocate(t, size, clear, file, line, raw, book) ==
    IF raw = NULL THEN Outcome(t, NULL, FALSE)
    ELSE allocate_tracked(t, size, clear, file, line, raw, book)

\* Faulty variant: nothing was released, so nothing is counted as freed.
realloc_old_size_zero(info) == 0

\* old_size of __watchdog_reallocate: the size of the last trace.
realloc_old_size(info) == chain_back(info.trace_list).size

\* Faulty variant: a resize counts the difference of the sizes as allocated.
reallocate_tracked_net(t, ptr, size, file, line, raw, book) ==
    LET i == t.heap[ptr]
        info == t.info_list[i]
        old_size == realloc_old_size(info)
        moved == [t EXCEPT !.heap = [[@ EXCEPT ![ptr] = NoChunk] EXCEPT ![raw] = i],
                           !.info_list[i].address = raw,
                           !.info_list[i].allocated = TRUE]
        trace == trace_t(CALL_REALLOC, file, line, size)
    IN  IF book = "trace" THEN Outcome(moved, NULL, TRUE)
        ELSE Outcome([moved EXCEPT
                        !.info_list[i].trace_list = chain_push(@, trace),
                        !.bytes_allocated = @ + size - old_size],
                     raw, FALSE)

\* __watchdog_reallocate once the raw chunk was resized to address raw: the
\* header, the address and the flag are written before the trace_t is
\* allocated, so the assert aborts with them already updated.
reallocate_tracked(t, ptr, size, file, line, raw, book) ==
    LET i == t.heap[ptr]
        info == t.info_list[i]
        old_size == realloc_old_size(info)
        moved == [t EXCEPT !.heap = [[@ EXCEPT ![ptr] = NoChunk] EXCEPT ![raw] = i],
                           !.info_list[i].address = raw,
                           !.info_list[i].allocated = TRUE]
        trace == trace_t(CALL_REALLOC, file, line, size)
    IN  IF book = "trace" THEN Outcome(moved, NULL, TRUE)
        ELSE Outcome([moved EXCEPT
                        !.info_list[i].trace_list = chain_push(@, trace),
                        !.bytes_allocated = @ + size,
                        !.bytes_freed = @ + old_size],
                     raw, FALSE)

\* Faulty variant: the REALLOC trace is recorded before the raw resize is checked.
__watchdog_reallocate_traces_first(t, ptr, size, file, line, raw, book) ==
    LET i == t.heap[ptr]
        trace == trace_t(CALL_REALLOC, file, line, size)
    IN  IF raw = NULL
        THEN Outcome([t EXCEPT !.info_list[i].trace_list = chain_push(@, trace)],
                     NULL, FALSE)
        ELSE reallocate_tracked(t, ptr, size, file, line, raw, book)

__watchdog_reallocate(t, ptr, size, file, line, raw, book) ==
    IF raw = NULL THEN Outcome(t, NULL, FALSE)
    ELSE reallocate_tracked(t, ptr, size, file, line, raw, book)

\* Faulty variant: the size the chunk was first allocated with.
free_bytes_freed_first(info) == info.trace_list[1].size

\* bytes_freed of __watchdog_free: the size of the last trace.
free_bytes_freed(info) == chain_back(info.trace_list).size

\* Faulty variant: the FREE trace is put at the front of the trace list.
__watchdog_free_prepends(t, ptr, file, line, book) ==
    LET i == t.heap[ptr]
        info == t.info_list[i]
        bytes == free_bytes_freed(info)
        trace == trace_t(CALL_FREE, file, line, 0)
    IN  IF book = "trace" THEN Outcome(t, 0, TRUE)
        ELSE Outcome([t EXCEPT
                        !.info_list[i].allocated = FALSE,
                        !.info_list[i].trace_list = <<trace>> \o @,
                        !.heap[ptr] = NoChunk,
                        !.frees_counter = @ + 1,
                        !.bytes_freed = @ + bytes],
                     bytes, FALSE)

\* Faulty variant: the FREE trace records the size that was freed.
__watchdog_free_traces_size(t, ptr, file, line, book) ==
    LET i == t.heap[ptr]
        info == t.info_list[i]
        bytes == free_bytes_freed(info)
        trace == trace_t(CALL_FREE, file, line, bytes)
    IN  IF book = "trace" THEN Outcome(t, 0, TRUE)
        ELSE Outcome([t EXCEPT
                        !.info_list[i].allocated = FALSE,
                        !.info_list[i].trace_list = chain_push(@, trace),
                        !.heap[ptr] = NoChunk,
                        !.frees_counter = @ + 1,
                        !.bytes_freed = @ + bytes],
                     bytes, FALSE)

\* Faulty variant: the info_t of a freed chunk is taken out of the registry.
__watchdog_free_unregisters(t, ptr, file, line, book) ==
    LET i == t.heap[ptr]
        info == t.info_list[i]
        bytes == free_bytes_freed(info)
        n == Len(t.info_list)
        rest == SubSeq(t.info_list, 1, i - 1) \o SubSeq(t.info_list, i + 1, n)
        shift(h) == IF h > i THEN h - 1 ELSE h
    IN  IF book = "trace" THEN Outcome(t, 0, TRUE)
        ELSE Outcome([t EXCEPT
                        !.info_list = rest,
                        !.heap = [a \in Addrs |->
                                     IF a = ptr THEN NoChunk ELSE shift(t.heap[a])],
                        !.frees_counter = @ + 1,
                        !.bytes_freed = @ + bytes],
                     bytes, FALSE)

__watchdog_free(t, ptr, file, line, book) ==
    LET i == t.heap[ptr]
        info == t.info_list[i]
        bytes == free_bytes_freed(info)
        trace == trace_t(CALL_FREE, file, line, 0)
    IN  IF book = "trace" THEN Outcome(t, 0, TRUE)
        ELSE Outcome([t EXCEPT
                        !.info_list[i].allocated = FALSE,
                        !.info_list[i].trace_list = chain_push(@, trace),
                        !.heap[ptr] = NoChunk,
                        !.frees_counter = @ + 1,
                        !.bytes_freed = @ + bytes],
                     bytes, FALSE)

----------------------------------------------------------------------------
\* The C library's exit handlers: atexit registers one more handler, exit
\* calls the registered handlers in the reverse order of their registration.
atexit(list, handler) == Append(list, handler)

exit_next_handler(list) == list[Len(list)]

\* Faulty variant: after the first handler called, the oldest one is dropped.
exit_rest_handlers_drops_first(list) ==
    IF Len(list) = 3 THEN SubSeq(list, 2, 2) ELSE SubSeq(list, 1, Len(list) - 1)

exit_rest_handlers(list) == SubSeq(list, 1, Len(list) - 1)

\* Faulty variant: report registered last, so that exit calls it first.
register_hooks_report_last(list) ==
    atexit(atexit(atexit(list, "terminate"), "collect"), "report")

\* The three atexit calls of __watchdog_initialize.
register_hooks(list) ==
    atexit(atexit(atexit(list, "terminate"), "report"), "collect")

\* __stream after the strcmp/fopen chain; fopen_ok is whether fopen succeeds.
open_stream(output, fopen_ok) ==
    IF output = "<stdout>" THEN "stdout"
    ELSE IF output = "<stderr>" THEN "stderr"
    ELSE IF fopen_ok THEN "file" ELSE "NULL"

\* Faulty variant: __initialized is not looked at, every call initializes.
__watchdog_initialize_every_call(fopen_ok) ==
    IF open_stream(cfg.output, fopen_ok) = "NULL"
    THEN [aborted |-> TRUE, initialized |-> FALSE, stream |-> "NULL",
          info_list |-> info_list, atexit_list |-> atexit_list]
    ELSE [aborted |-> FALSE, initialized |-> TRUE,
          stream |-> open_stream(cfg.output, fopen_ok),
          info_list |-> chain_new,
          atexit_list |-> register_hooks(atexit_list)]

__watchdog_initialize(fopen_ok) ==
    IF initialized
    THEN [aborted |-> FALSE, initialized |-> initialized, stream |-> stream,
          info_list |-> info_list, atexit_list |-> atexit_list]
    ELSE IF open_stream(cfg.output, fopen_ok) = "NULL"
    THEN [aborted |-> TRUE, initialized |-> FALSE, stream |-> "NULL",
          info_list |-> info_list, atexit_list |-> atexit_list]
    ELSE [aborted |-> FALSE, initialized |-> TRUE,
          stream |-> open_stream(cfg.output, fopen_ok),
          info_list |-> chain_new,
          atexit_list |-> register_hooks(atexit_list)]

SetInitialized(g) ==
    /\ initialized' = g.initialized
    /\ stream' = g.stream
    /\ atexit_list' = g.atexit_list

\* The tracker state an entry point works on after __watchdog_initialize.
TrackerAfter(g) == [Tracker EXCEPT !.info_list = g.info_list]

\* An entry point whose __watchdog_initialize aborted the process.
Call(call, ptr, size, returned, ret) ==
    [call |-> call, ptr |-> ptr, size |-> size, returned |-> returned,
     ret |-> ret]

InitAborted(g, call, ptr, size) ==
    /\ pc' = "aborted"
    /\ SetInitialized(g)
    /\ last' = Call(call, ptr, size, FALSE, NULL)
    /\ UNCHANGED <<cfg, freed_records, info_list, heap, allocations_counter, frees_counter,
                   bytes_allocated, bytes_freed, bytes_collected, ran,
                   report_out>>

\* An entry point that went on to an internal function with outcome r.
Returned(g, r, call, ptr, size) ==
    /\ pc' = IF r.aborted THEN "aborted" ELSE "running"
    /\ SetInitialized(g)
    /\ SetTracker(r.t)
    /\ last' = Call(call, ptr, size, ~r.aborted, r.ret)
    /\ UNCHANGED <<cfg, freed_records, bytes_collected, ran, report_out>>

\* fopen runs, and may fail, only in the call that initializes.
FopenResults == IF initialized THEN {TRUE} ELSE BOOLEAN

----------------------------------------------------------------------------
_watchdog_malloc ==
    /\ pc = "running"
    /\ TotalTraces(info_list) < MaxCalls
    /\ \E size \in Sizes, file \in Files, line \in Lines, fopen_ok \in FopenResults,
          raw \in {NULL} \cup FreeAddrs(heap), book \in BookFailures :
          LET g == __watchdog_initialize(fopen_ok)
              r == __watchdog_allocate(TrackerAfter(g), size, FALSE, file, line,
                                       raw, book)
          IN  IF g.aborted THEN InitAborted(g, CALL_MALLOC, NULL, size)
              ELSE Returned(g, r, CALL_MALLOC, NULL, size)

\* num * size is the size handed on; the inputs are drawn as that product.
_watchdog_calloc ==
    /\ pc = "running"
    /\ TotalTraces(info_list) < MaxCalls
    /\ \E actual_size \in Sizes, file \in Files, line \in Lines,
          fopen_ok \in FopenResults,
          raw \in {NULL} \cup FreeAddrs(heap), book \in BookFailures :
          LET g == __watchdog_initialize(fopen_ok)
              r == __watchdog_allocate(TrackerAfter(g), actual_size, TRUE, file,
                                       line, raw, book)
          IN  IF g.aborted THEN InitAborted(g, CALL_CALLOC, NULL, actual_size)
              ELSE Returned(g, r, CALL_CALLOC, NULL, actual_size)

\* ptr is a pointer an earlier malloc/calloc/realloc returned and that was
\* not freed since; any other pointer is undefined behaviour.
_watchdog_realloc ==
    /\ pc = "running"
    /\ TotalTraces(info_list) < MaxCalls
    /\ \E ptr \in LivePtrs(heap), size \in Sizes, file \in Files, line \in Lines :
       \E raw \in {NULL, ptr} \cup FreeAddrs(heap), book \in {"none", "trace"} :
          LET g == __watchdog_initialize(TRUE)
              r == __watchdog_reallocate(TrackerAfter(g), ptr, size, file, line,
                                         raw, book)
          IN  Returned(g, r, CALL_REALLOC, ptr, size)

_watchdog_free ==
    /\ pc = "running"
    /\ TotalTraces(info_list) < MaxCalls
    /\ \E ptr \in LivePtrs(heap), file \in Files, line \in Lines,
          book \in {"none", "trace"} :
          LET g == __watchdog_initialize(TRUE)
              r == __watchdog_free(TrackerAfter(g), ptr, file, line, book)
          IN  Returned(g, r, CALL_FREE, ptr, 0)

_watchdog_exit ==
    /\ pc = "running"
    /\ \E fopen_ok \in FopenResults :
          LET g == __watchdog_initialize(fopen_ok)
          IN  IF g.aborted THEN InitAborted(g, CALL_EXIT, NULL, 0)
              ELSE /\ pc' = "exiting"
                   /\ SetInitialized(g)
                   /\ info_list' = g.info_list
                   /\ last' = Call(CALL_EXIT, NULL, 0, FALSE, NULL)
                   /\ UNCHANGED <<cfg, freed_records, heap, allocations_counter, frees_counter,
                                  bytes_allocated, bytes_freed, bytes_collected,
                                  ran, report_out>>

\* Faulty variant: the wrapper ends the process as exit() does, so that the
\* atexit handlers are called.
_watchdog_abort_exits ==
    /\ pc = "running"
    /\ \E fopen_ok \in FopenResults :
          LET g == __watchdog_initialize(fopen_ok)
          IN  IF g.aborted THEN InitAborted(g, CALL_ABORT, NULL, 0)
              ELSE /\ pc' = "exiting"
                   /\ SetInitialized(g)
                   /\ info_list' = g.info_list
                   /\ last' = Call(CALL_ABORT, NULL, 0, FALSE, NULL)
                   /\ UNCHANGED <<cfg, freed_records, heap, allocations_counter, frees_counter,
                                  bytes_allocated, bytes_freed, bytes_collected,
                                  ran, report_out>>

\* abort() raises SIGABRT: the process ends without any atexit handler called.
_watchdog_abort ==
    /\ pc = "running"
    /\ \E fopen_ok \in FopenResults :
          LET g == __watchdog_initialize(fopen_ok)
          IN  IF g.aborted THEN InitAborted(g, CALL_ABORT, NULL, 0)
              ELSE /\ pc' = "aborted"
                   /\ SetInitialized(g)
                   /\ info_list' = g.info_list
                   /\ last' = Call(CALL_ABORT, NULL, 0, FALSE, NULL)
                   /\ UNCHANGED <<cfg, freed_records, heap, allocations_counter, frees_counter,
                                  bytes_allocated, bytes_freed, bytes_collected,
                                  ran, report_out>>

----------------------------------------------------------------------------
\* exit() is about to call handler h.
Calls(h) ==
    /\ pc = "exiting"
    /\ atexit_list # <<>>
    /\ exit_next_handler(atexit_list) = h

Called(h) ==
    /\ atexit_list' = exit_rest_handlers(atexit_list)
    /\ ran' = Append(ran, h)

\* What the report prints: the address and the traces of every info_t,
\* front to back, then the counters.
report_lines ==
    [infos |-> [i \in 1 .. Len(info_list) |->
                   [address |-> info_list[i].address,
                    traces |-> info_list[i].trace_list]],
     allocations |-> allocations_counter, frees |-> frees_counter,
     bytes_allocated |-> bytes_allocated, bytes_freed |-> bytes_freed,
     bytes_collected |-> bytes_collected]

__watchdog_report ==
    /\ Calls("report")
    /\ Called("report")
    /\ report_out' = IF cfg.report THEN <<report_lines>> ELSE report_out
    /\ UNCHANGED <<pc, cfg, stream, initialized, info_list, heap,
                   allocations_counter, frees_counter, bytes_allocated,
                   bytes_freed, bytes_collected, freed_records, last>>

\* Faulty variant: the size is read from the last trace after the internal free.
collect_size_after(before, after) == chain_back(after.trace_list).size

\* The size __watchdog_collect adds for an info_t: current_trace is fetched
\* before the internal free, and still points to that trace after it.
collect_size(before, after) == chain_back(before.trace_list).size

\* The loop of __watchdog_collect from position i of the registry; c carries
\* the tracker state, __bytes_collected and whether the process aborted.
\* fail_at is the position whose internal free cannot get its trace_t.
RECURSIVE collect_loop(_, _, _)
collect_loop(c, i, fail_at) ==
    IF i > Len(c.t.info_list) THEN c
    ELSE
        LET current_info == c.t.info_list[i]
            r == __watchdog_free(c.t, current_info.address,
                                 "<garbage collector>", 0,
                                 IF i = fail_at THEN "trace" ELSE "none")
        IN  IF ~current_info.allocated THEN collect_loop(c, i + 1, fail_at)
            ELSE IF r.aborted THEN [c EXCEPT !.t = r.t, !.aborted = TRUE]
            ELSE collect_loop(
                     [c EXCEPT !.t = r.t,
                               !.bytes_collected =
                                   @ + collect_size(current_info,
                                                    r.t.info_list[i])],
                     i + 1, fail_at)

\* Faulty variant: the loop leaves out the info_t at the front of the registry.
collect_result_skips_front(fail_at) ==
    LET c0 == [t |-> Tracker, bytes_collected |-> bytes_collected,
               aborted |-> FALSE]
    IN  IF cfg.gc THEN collect_loop(c0, 2, fail_at) ELSE c0

\* The body of __watchdog_collect: the loop when WATCHDOG_GC is set, nothing
\* otherwise.
collect_result(fail_at) ==
    LET c0 == [t |-> Tracker, bytes_collected |-> bytes_collected,
               aborted |-> FALSE]
    IN  IF cfg.gc THEN collect_loop(c0, 1, fail_at) ELSE c0

__watchdog_collect ==
    /\ Calls("collect")
    /\ Called("collect")
    /\ \E fail_at \in 0 .. Len(info_list) :
       \E c \in {collect_result(fail_at)} :
          /\ SetTracker(c.t)
          /\ bytes_collected' = c.bytes_collected
          /\ pc' = IF c.aborted THEN "aborted" ELSE pc
    /\ UNCHANGED <<cfg, freed_records, stream, initialized, report_out, last>>

\* Faulty variant: the trace list is deleted without its traces being freed.
terminate_traces_leaks(trace_list, i, k, freed) == [list |-> <<>>, freed |-> freed]

\* The inner loop of __watchdog_terminate on the trace list of the i-th info_t
\* popped: every trace_t popped is freed.  k counts the pops; freed is the
\* sequence of what was freed or deleted so far.
RECURSIVE terminate_traces(_, _, _, _)
terminate_traces(trace_list, i, k, freed) ==
    IF trace_list = <<>> THEN [list |-> trace_list, freed |-> freed]
    ELSE terminate_traces(chain_pop(trace_list), i, k + 1,
                          Append(freed, <<"trace_t", i, k>>))

\* The outer loop: every info_t popped has its trace list drained, its trace
\* list deleted and is freed itself.
RECURSIVE terminate_loop(_, _, _)
terminate_loop(list, i, freed) ==
    IF list = <<>> THEN [list |-> list, freed |-> freed]
    ELSE
        LET current_info == chain_pop_data(list)
            drained == terminate_traces(current_info.trace_list, i, 1, freed)
        IN  terminate_loop(chain_pop(list), i + 1,
                           drained.freed \o <<<<"trace_list", i, 0>>,
                                               <<"info_t", i, 0>>>>)

\* The loops, then chain_delete(__info_list).
terminate_result ==
    LET drained == terminate_loop(info_list, 1, freed_records)
    IN  [list |-> drained.list,
         freed |-> Append(drained.freed, <<"info_list", 0, 0>>)]

\* The registry and every trace list are drained and deleted; the stream is
\* closed unless it is stdout or stderr.
__watchdog_terminate ==
    /\ Calls("terminate")
    /\ Called("terminate")
    /\ \E r \in {terminate_result} :
          /\ info_list' = r.list
          /\ freed_records' = r.freed
    /\ stream' = IF stream \in {"stdout", "stderr"} THEN stream ELSE "closed"
    /\ UNCHANGED <<pc, cfg, initialized, heap, allocations_counter,
                   frees_counter, bytes_allocated, bytes_freed, bytes_collected,
                   report_out, last>>

\* exit() has called every handler: the process ends.
exit_done ==
    /\ pc = "exiting"
    /\ atexit_list = <<>>
    /\ pc' = "exited"
    /\ UNCHANGED <<cfg, freed_records, stream, initialized, info_list, heap,
                   allocations_counter, frees_counter, bytes_allocated,
                   bytes_freed, bytes_collected, atexit_list, ran, report_out,
                   last>>

----------------------------------------------------------------------------
Outputs == {"<stdout>", "<stderr>", "file"}

Init ==
    /\ pc = "running"
    /\ cfg \in [output : Outputs, report : BOOLEAN, gc : BOOLEAN]
    /\ stream = "NULL"
    /\ initialized = FALSE
    /\ info_list = <<>>
    /\ heap = [a \in Addrs |-> NoChunk]
    /\ allocations_counter = 0
    /\ frees_counter = 0
    /\ bytes_allocated = 0
    /\ bytes_freed = 0
    /\ bytes_collected = 0
    /\ atexit_list = <<>>
    /\ ran = <<>>
    /\ report_out = <<>>
    /\ freed_records = <<>>
    /\ last = Call("none", NULL, 0, FALSE, NULL)

Next ==
    \/ _watchdog_malloc
    \/ _watchdog_calloc
    \/ _watchdog_realloc
    \/ _watchdog_free
    \/ _watchdog_exit
    \/ _watchdog_abort
    \/ __watchdog_report
    \/ __watchdog_collect
    \/ __watchdog_terminate
    \/ exit_done

Spec == Init /\ [][Next]_vars

----------------------------------------------------------------------------
\* Alligator: the allocator that tracks nothing.  It is built instead of the
\* tracker, so it is a specification of its own on the same variables: only
\* pc, heap and last ever change.  A raw chunk has no header here, which the
\* heap shows as Uninit.

\* The sizes asked for, a request for no byte included.
AlligatorSizes == {0} \cup Sizes

\* The pointers a caller holds: NULL or a live raw chunk.
RawPtrs(h) == {NULL} \cup {a \in Addrs : h[a] # NoChunk}

\* The heap after malloc or calloc handed back chunk.
libc_alloc(h, chunk) == IF chunk = NULL THEN h ELSE [h EXCEPT ![chunk] = Uninit]

\* The heap after realloc(ptr, size) handed back chunk.  A failed realloc
\* leaves the old chunk alone; for size 0 the library may as well have
\* released it, which is what released says.
libc_realloc(h, ptr, size, chunk, released) ==
    IF chunk = NULL
    THEN IF ptr # NULL /\ size = 0 /\ released
         THEN [h EXCEPT ![ptr] = NoChunk] ELSE h
    ELSE IF ptr = NULL THEN [h EXCEPT ![chunk] = Uninit]
    ELSE [[h EXCEPT ![ptr] = NoChunk] EXCEPT ![chunk] = Uninit]

\* free(NULL) does nothing.
libc_free(h, ptr) == IF ptr = NULL THEN h ELSE [h EXCEPT ![ptr] = NoChunk]

\* Faulty variant: the message is printed, the process goes on.
__ensure_reports(assertion) == "return"

\* __ensure prints and aborts unless the assertion holds.
__ensure(assertion) == IF ~assertion THEN "abort" ELSE "return"

\* A function of Alligator after its call of the C library: chunk is what
\* the library handed back, h the heap it left.
AlligatorCall(call, ptr, size, chunk, h) ==
    /\ heap' = h
    /\ pc' = IF __ensure(NULL # chunk) = "abort" THEN "aborted" ELSE "running"
    /\ last' = Call(call, ptr, size, __ensure(NULL # chunk) = "return", chunk)
    /\ UNCHANGED <<cfg, freed_records, stream, initialized, info_list,
                   allocations_counter, frees_counter, bytes_allocated,
                   bytes_freed, bytes_collected, atexit_list, ran, report_out>>

alligator_malloc_ ==
    /\ pc = "running"
    /\ \E size \in AlligatorSizes, chunk \in {NULL} \cup FreeAddrs(heap) :
          AlligatorCall(CALL_MALLOC, NULL, size, chunk, libc_alloc(heap, chunk))

\* nmemb * size is drawn as the product.
alligator_calloc_ ==
    /\ pc = "running"
    /\ \E size \in AlligatorSizes, chunk \in {NULL} \cup FreeAddrs(heap) :
          AlligatorCall(CALL_CALLOC, NULL, size, chunk, libc_alloc(heap, chunk))

alligator_realloc_ ==
    /\ pc = "running"
    /\ \E ptr \in RawPtrs(heap), size \in AlligatorSizes, released \in BOOLEAN :
       \E chunk \in ({NULL, ptr} \cup FreeAddrs(heap)) :
          AlligatorCall(CALL_REALLOC, ptr, size, chunk,
                        libc_realloc(heap, ptr, size, chunk, released))

\* No __ensure here: free hands nothing back.
alligator_free_ ==
    /\ pc = "running"
    /\ \E ptr \in RawPtrs(heap) :
          /\ heap' = libc_free(heap, ptr)
          /\ last' = Call(CALL_FREE, ptr, 0, TRUE, NULL)
          /\ UNCHANGED <<pc, cfg, freed_records, stream, initialized, info_list,
                         allocations_counter, frees_counter, bytes_allocated,
                         bytes_freed, bytes_collected, atexit_list, ran,
                         report_out>>

AlligatorInit ==
    /\ pc = "running"
    /\ cfg = [output |-> "<stderr>", report |-> FALSE, gc |-> FALSE]
    /\ stream = "NULL"
    /\ initialized = FALSE
    /\ info_list = <<>>
    /\ heap = [a \in Addrs |-> NoChunk]
    /\ allocations_counter = 0
    /\ frees_counter = 0
    /\ bytes_allocated = 0
    /\ bytes_freed = 0
    /\ bytes_collected = 0
    /\ atexit_list = <<>>
    /\ ran = <<>>
    /\ report_out = <<>>
    /\ freed_records = <<>>
    /\ last = Call("none", NULL, 0, FALSE, NULL)

AlligatorNext ==
    \/ alligator_malloc_
    \/ alligator_calloc_
    \/ alligator_realloc_
    \/ alligator_free_

AlligatorSpec == AlligatorInit /\ [][AlligatorNext]_vars

----------------------------------------------------------------------------
\* Helpers of the properties.
IsPrefix(s, t) == Len(s) <= Len(t) /\ s = SubSeq(t, 1, Len(s))

Count(s, x) == Cardinality({i \in 1 .. Len(s) : s[i] = x})

LastSize(info) == info.trace_list[Len(info.trace_list)].size

\* The sizes of the allocations still marked allocated, summed.
LiveBytes(list) ==
    SumSeq([i \in 1 .. Len(list) |->
               IF list[i].allocated THEN LastSize(list[i]) ELSE 0])

\* This step is an instrumented call of kind c that returned to its caller.
ReturnedFrom(c) == pc = "running" /\ last'.call = c /\ last'.returned

\* exit() calls handler h in this step.
Runs(h) == pc = "exiting" /\ ran' = Append(ran, h)

----------------------------------------------------------------------------
\* C1 (as claimed): exit calls the handlers in the order report, collect,
\* terminate.
C1_ReportCollectTerminate ==
    IsPrefix(ran, <<"report", "collect", "terminate">>)

\* C1 (amended): exit calls the handlers in the order collect, report,
\* terminate.  collect has freed every chunk still allocated before report
\* reads the registry: with collection enabled, every allocation the report
\* prints ends in a FREE trace and the report's counters are the final ones.
\* terminate runs last and leaves no registry behind.
C1_CollectReportTerminate ==
    /\ IsPrefix(ran, <<"collect", "report", "terminate">>)
    /\ \A k \in 1 .. Len(report_out) :
          /\ cfg.gc =>
                \A i \in 1 .. Len(report_out[k].infos) :
                   chain_back(report_out[k].infos[i].traces).func = CALL_FREE
          /\ report_out[k].bytes_collected = bytes_collected
          /\ report_out[k].bytes_freed = bytes_freed
          /\ report_out[k].frees = frees_counter
    /\ Count(ran, "terminate") = 1 => info_list = <<>>

C1_Witness ==
    /\ ran = <<"collect", "report", "terminate">>
    /\ cfg.gc
    /\ Len(report_out) = 1
    /\ \E i \in 1 .. Len(report_out[1].infos) :
          chain_back(report_out[1].infos[i].traces).file = "<garbage collector>"
    /\ report_out[1].bytes_collected > 0

\* C2: while the program runs, bytes_allocated - bytes_freed is the sum of
\* the last-trace sizes of the info_t records marked allocated.
C2_LiveBytesBalance ==
    pc = "running" => bytes_allocated - bytes_freed = LiveBytes(info_list)

C2_Witness ==
    /\ pc = "running"
    /\ Len(info_list) = 2
    /\ ~info_list[1].allocated
    /\ info_list[2].allocated
    /\ info_list[1].trace_list[1].size # LastSize(info_list[2])
    /\ bytes_freed > 0
    /\ bytes_allocated - bytes_freed = LastSize(info_list[2])

\* C3: a resize that succeeds, of a live allocation of size A to size B,
\* adds B to bytes_allocated and A to bytes_freed, leaves the two call
\* counters and the length of the registry alone, and appends one REALLOC
\* trace of size B to the trace list of the same info_t.
C3_ReallocAccounting ==
    [][(ReturnedFrom(CALL_REALLOC) /\ last'.ret # NULL) =>
          LET i == heap[last'.ptr]
              A == LastSize(info_list[i])
              B == last'.size
          IN  /\ bytes_allocated' = bytes_allocated + B
              /\ bytes_freed' = bytes_freed + A
              /\ allocations_counter' = allocations_counter
              /\ frees_counter' = frees_counter
              /\ Len(info_list') = Len(info_list)
              /\ heap'[last'.ret] = i
              /\ Len(info_list'[i].trace_list) = Len(info_list[i].trace_list) + 1
              /\ IsPrefix(info_list[i].trace_list, info_list'[i].trace_list)
              /\ chain_back(info_list'[i].trace_list).func = CALL_REALLOC
              /\ chain_back(info_list'[i].trace_list).size = B
              /\ info_list'[i].address = last'.ret
              /\ info_list'[i].allocated]_vars

C3_Witness ==
    /\ pc = "running"
    /\ last.call = CALL_REALLOC /\ last.returned /\ last.ret # NULL
    /\ Len(info_list) = 1
    /\ Len(info_list[1].trace_list) = 2
    /\ info_list[1].trace_list[1].size = 100
    /\ info_list[1].trace_list[2] = trace_t(CALL_REALLOC, "fileA", 10, 250)
    /\ bytes_allocated = 350 /\ bytes_freed = 100

\* C4: a release that returns, of a live chunk, adds 1 to the free counter
\* and the size of the chunk's last trace to bytes_freed, appends one FREE
\* trace of size 0, marks the info_t not allocated, and leaves
\* bytes_allocated and the allocation counter alone.
C4_FreeAccounting ==
    [][ReturnedFrom(CALL_FREE) =>
          LET i == heap[last'.ptr]
          IN  /\ frees_counter' = frees_counter + 1
              /\ bytes_freed' = bytes_freed + LastSize(info_list[i])
              /\ last'.ret = LastSize(info_list[i])
              /\ info_list'[i].trace_list =
                    Append(info_list[i].trace_list,
                           trace_t(CALL_FREE, "fileA", 10, 0))
              /\ ~info_list'[i].allocated
              /\ info_list'[i].address = info_list[i].address
              /\ bytes_allocated' = bytes_allocated
              /\ allocations_counter' = allocations_counter
              /\ Len(info_list') = Len(info_list)]_vars

C4_Witness ==
    /\ pc = "running"
    /\ last.call = CALL_FREE /\ last.returned
    /\ frees_counter = 1
    /\ \E i \in 1 .. Len(info_list) :
          /\ ~info_list[i].allocated
          /\ Len(info_list[i].trace_list) = 3
          /\ info_list[i].trace_list[2].size # info_list[i].trace_list[1].size
          /\ bytes_freed = info_list[i].trace_list[1].size
                           + info_list[i].trace_list[2].size

\* C5: a malloc or calloc whose raw allocation fails returns NULL and leaves
\* the tracker as it was: the registry, the heap and the five counters.
C5_AllocFailureUntracked ==
    [][/\ pc = "running" =>
             \A size \in Sizes, clear \in BOOLEAN, book \in BookFailures :
                __watchdog_allocate(Tracker, size, clear, "fileA", 10, NULL, book)
                   = Outcome(Tracker, NULL, FALSE)
       /\ ((ReturnedFrom(CALL_MALLOC) \/ ReturnedFrom(CALL_CALLOC))
              /\ last'.ret = NULL) =>
             /\ info_list' = info_list
             /\ heap' = heap
             /\ allocations_counter' = allocations_counter
             /\ frees_counter' = frees_counter
             /\ bytes_allocated' = bytes_allocated
             /\ bytes_freed' = bytes_freed
             /\ bytes_collected' = bytes_collected]_vars

C5_Witness ==
    /\ pc = "running"
    /\ last.call = CALL_CALLOC /\ last.returned /\ last.ret = NULL
    /\ Len(info_list) = 1 /\ allocations_counter = 1
    /\ bytes_allocated = 100 /\ last.size = 250

\* C6: a realloc whose raw resize fails returns NULL and leaves the tracker
\* as it was: the info_t keeps its address, flag and trace list, the
\* registry and the heap are the same, and no counter moves.
C6_ReallocFailureKeepsTracking ==
    [][/\ pc = "running" =>
             \A ptr \in LivePtrs(heap), size \in Sizes :
                __watchdog_reallocate(Tracker, ptr, size, "fileA", 10, NULL, "none")
                   = Outcome(Tracker, NULL, FALSE)
       /\ (ReturnedFrom(CALL_REALLOC) /\ last'.ret = NULL) =>
             /\ info_list' = info_list
             /\ heap' = heap
             /\ heap'[last'.ptr] >= 1
             /\ info_list'[heap'[last'.ptr]].address = last'.ptr
             /\ info_list'[heap'[last'.ptr]].allocated
             /\ allocations_counter' = allocations_counter
             /\ frees_counter' = frees_counter
             /\ bytes_allocated' = bytes_allocated
             /\ bytes_freed' = bytes_freed
             /\ bytes_collected' = bytes_collected]_vars

C6_Witness ==
    /\ pc = "running"
    /\ last.call = CALL_REALLOC /\ last.returned /\ last.ret = NULL
    /\ heap[last.ptr] >= 1
    /\ info_list[heap[last.ptr]].allocated
    /\ Len(info_list[heap[last.ptr]].trace_list) = 1
    /\ bytes_freed = 0

\* C7: until exit calls terminate, no step takes an info_t out of the
\* registry: the registry keeps its length or grows, and every info_t stays
\* at its place with its trace list kept or extended.
C7_RegistryNeverShrinks ==
    [][Count(ran', "terminate") = 0 =>
          /\ Len(info_list') >= Len(info_list)
          /\ \A i \in 1 .. Len(info_list) :
                IsPrefix(info_list[i].trace_list, info_list'[i].trace_list)]_vars

C7_Witness ==
    /\ pc = "running"
    /\ Len(info_list) = 2
    /\ ~info_list[1].allocated
    /\ chain_back(info_list[1].trace_list).func = CALL_FREE
    /\ info_list[2].allocated
    /\ last.call = CALL_MALLOC /\ last.returned /\ last.ret # NULL

\* The tracker before any allocation, and after each call of the sequence
\* allocate(A), resize to B, release.
C8_Fresh ==
    /\ info_list = <<>>
    /\ allocations_counter = 0 /\ frees_counter = 0
    /\ bytes_allocated = 0 /\ bytes_freed = 0

C8_AfterAllocate(A) ==
    /\ Len(info_list) = 1
    /\ Len(info_list[1].trace_list) = 1
    /\ info_list[1].trace_list[1].func \in {CALL_MALLOC, CALL_CALLOC}
    /\ info_list[1].trace_list[1].size = A
    /\ info_list[1].allocated
    /\ allocations_counter = 1 /\ frees_counter = 0
    /\ bytes_allocated = A /\ bytes_freed = 0

C8_AfterResize(A, B) ==
    /\ Len(info_list) = 1
    /\ Len(info_list[1].trace_list) = 2
    /\ info_list[1].trace_list[1].func \in {CALL_MALLOC, CALL_CALLOC}
    /\ info_list[1].trace_list[1].size = A
    /\ info_list[1].trace_list[2].func = CALL_REALLOC
    /\ info_list[1].trace_list[2].size = B
    /\ info_list[1].allocated
    /\ allocations_counter = 1 /\ frees_counter = 0
    /\ bytes_allocated = A + B /\ bytes_freed = A

C8_AfterRelease(A, B) ==
    /\ Len(info_list) = 1
    /\ Len(info_list[1].trace_list) = 3
    /\ info_list[1].trace_list[1].func \in {CALL_MALLOC, CALL_CALLOC}
    /\ info_list[1].trace_list[1].size = A
    /\ info_list[1].trace_list[2].func = CALL_REALLOC
    /\ info_list[1].trace_list[2].size = B
    /\ info_list[1].trace_list[3].func = CALL_FREE
    /\ info_list[1].trace_list[3].size = 0
    /\ ~info_list[1].allocated
    /\ allocations_counter = 1 /\ frees_counter = 1
    /\ bytes_allocated = A + B /\ bytes_freed = A + B

\* C8: on a fresh tracker, allocate(A), a resize to B that succeeds, and a
\* release leave one info_t, still in the registry, whose trace list is
\* ALLOC A, REALLOC B, FREE 0, with allocations = 1, frees = 1,
\* bytes_allocated = A + B and bytes_freed = A + B.
C8_AllocResizeRelease ==
    [][\A A \in Sizes, B \in Sizes :
          /\ (C8_Fresh
                /\ (ReturnedFrom(CALL_MALLOC) \/ ReturnedFrom(CALL_CALLOC))
                /\ last'.ret # NULL /\ last'.size = A)
             => C8_AfterAllocate(A)'
          /\ (C8_AfterAllocate(A) /\ ReturnedFrom(CALL_REALLOC)
                /\ last'.ret # NULL /\ last'.size = B)
             => C8_AfterResize(A, B)'
          /\ (C8_AfterResize(A, B) /\ ReturnedFrom(CALL_FREE))
             => C8_AfterRelease(A, B)']_vars

C8_Witness ==
    /\ pc = "running"
    /\ last.call = CALL_FREE /\ last.returned
    /\ C8_AfterRelease(100, 250)
    /\ bytes_allocated = 350 /\ bytes_freed = 350

\* C9: with collection enabled, a collect that runs to its end has visited
\* every info_t: each one marked allocated got the FREE trace of the
\* internal free and is no longer marked allocated, each other one is
\* untouched, and bytes_collected grew by the sizes the allocated ones had
\* before their FREE trace.
C9_CollectCountsLiveSizes ==
    [][(Runs("collect") /\ cfg.gc /\ pc' = "exiting") =>
          /\ bytes_collected' = bytes_collected + LiveBytes(info_list)
          /\ bytes_freed' = bytes_freed + LiveBytes(info_list)
          /\ Len(info_list') = Len(info_list)
          /\ \A i \in 1 .. Len(info_list) :
                IF info_list[i].allocated
                THEN /\ ~info_list'[i].allocated
                     /\ info_list'[i].trace_list =
                           Append(info_list[i].trace_list,
                                  trace_t(CALL_FREE, "<garbage collector>", 0, 0))
                     /\ heap'[info_list[i].address] = NoChunk
                ELSE info_list'[i] = info_list[i]]_vars

C9_Witness ==
    /\ cfg.gc
    /\ Count(ran, "collect") = 1
    /\ pc = "exiting"
    /\ Len(info_list) = 2
    /\ Len(info_list[1].trace_list) = 2
    /\ info_list[1].trace_list[1].func = CALL_MALLOC
    /\ info_list[1].trace_list[1].size = 100
    /\ info_list[1].trace_list[2].file = "<garbage collector>"
    /\ info_list[2].trace_list[Len(info_list[2].trace_list)].file = "fileA"
    /\ bytes_collected = 100

\* exit() calls its handlers one after another without waiting for anything,
\* and each handler is a loop over a finite chain: no handler is held back.
LiveSpec ==
    /\ Spec
    /\ WF_vars(__watchdog_report)
    /\ WF_vars(__watchdog_collect)
    /\ WF_vars(__watchdog_terminate)
    /\ WF_vars(exit_done)

AllHooksOnce ==
    /\ Count(ran, "report") = 1
    /\ Count(ran, "collect") = 1
    /\ Count(ran, "terminate") = 1

\* C10 (as claimed): once _watchdog_exit has reached exit(), the process
\* does not end before each of the three handlers ran exactly once.
C10_EndsAfterAllHooks ==
    (last.call = CALL_EXIT /\ initialized /\ pc \in {"exited", "aborted"})
       => AllHooksOnce

\* C10 (amended): once _watchdog_exit has reached exit(), the process ends;
\* no handler runs twice; when it ends by exiting, each of the three ran
\* exactly once; it ends by aborting only inside collect, with collection
\* enabled, when the internal free of a chunk cannot get its trace_t, and
\* then report and terminate never run.
C10_ExitRunsHooks ==
    /\ [](/\ Count(ran, "report") <= 1
          /\ Count(ran, "collect") <= 1
          /\ Count(ran, "terminate") <= 1)
    /\ [](pc = "exited" => AllHooksOnce)
    /\ []((last.call = CALL_EXIT /\ initialized /\ pc = "aborted") =>
             /\ cfg.gc
             /\ ran = <<"collect">>
             /\ \E i \in 1 .. Len(info_list) : info_list[i].allocated)
    /\ (pc = "exiting") ~> (pc \in {"exited", "aborted"})

C10_Witness ==
    /\ pc = "exited"
    /\ last.call = CALL_EXIT
    /\ AllHooksOnce
    /\ Len(ran) = 3

----------------------------------------------------------------------------
\* C11 as stated: once _watchdog_abort has reached abort(), the three atexit
\* handlers have run or are still to run, as after _watchdog_exit.  The first
\* state after the call already refutes it.
C11_AbortRunsHooks ==
    (last.call = CALL_ABORT /\ initialized) =>
        \/ pc = "exiting"
        \/ AllHooksOnce

\* C11 amended: _watchdog_abort initializes the tracker if need be, then
\* abort() ends the process at once.  No atexit handler is ever called: the
\* three of them stay registered, nothing is reported, nothing is collected,
\* the registry is not drained and the stream is not closed; no step follows.
C11_AbortRunsNoHook ==
    [][/\ (pc = "running" /\ last'.call = CALL_ABORT) =>
            /\ pc' = "aborted"
            /\ ~last'.returned
            /\ initialized' =>
                  /\ atexit_list' = <<"terminate", "report", "collect">>
                  /\ stream' \in {"stdout", "stderr", "file"}
            /\ ran' = <<>> /\ report_out' = <<>> /\ bytes_collected' = 0
            /\ info_list' = info_list /\ heap' = heap
            /\ allocations_counter' = allocations_counter
            /\ frees_counter' = frees_counter
            /\ bytes_allocated' = bytes_allocated
            /\ bytes_freed' = bytes_freed
       /\ pc # "aborted"]_vars

\* An initialized tracker with a live chunk, ended by _watchdog_abort.
C11_Witness ==
    /\ last.call = CALL_ABORT
    /\ pc = "aborted"
    /\ initialized
    /\ Len(info_list) = 1
    /\ info_list[1].allocated
    /\ Len(atexit_list) = 3
    /\ ran = <<>>

----------------------------------------------------------------------------
\* The handlers registered so far, whether exit() has called them or not.
Registered(h) == Count(atexit_list, h) + Count(ran, h)

\* Every info_t of the registry is still there, at its place, with the traces
\* it had as the first traces of its list.
RegistryKept ==
    /\ Len(info_list) <= Len(info_list')
    /\ \A i \in 1 .. Len(info_list) :
          IsPrefix(info_list[i].trace_list, info_list'[i].trace_list)

\* C12: initialization is lazy and happens once.  Before the first call there
\* is no stream, no registry content and no handler.  The first call opens
\* the stream, creates the registry and registers terminate, report and
\* collect once each, unless fopen fails, in which case the process is
\* aborted inside that call with nothing registered.  Every later call
\* leaves the stream, the registered handlers and the content of the registry
\* as initialization left them: each handler is registered once for good.
C12_InitializedOnce ==
    /\ [](IF initialized
          THEN \A h \in {"terminate", "report", "collect"} : Registered(h) = 1
          ELSE /\ atexit_list = <<>> /\ ran = <<>>
               /\ info_list = <<>> /\ stream = "NULL")
    /\ [][pc = "running" =>
            IF initialized
            THEN /\ initialized'
                 /\ atexit_list' = atexit_list
                 /\ stream' = stream
                 /\ RegistryKept
            ELSE \/ /\ initialized'
                    /\ atexit_list' = <<"terminate", "report", "collect">>
                    /\ stream' = open_stream(cfg.output, TRUE)
                    /\ Len(info_list') <= 1
                 \/ /\ ~initialized'
                    /\ cfg.output = "file"
                    /\ pc' = "aborted"
                    /\ atexit_list' = <<>> /\ info_list' = <<>>]_vars

\* A third call on a tracker that the first call initialized: the two info_t
\* of the calls before are in the registry, the handlers are registered once.
C12_Witness ==
    /\ initialized
    /\ pc = "running"
    /\ Len(info_list) = 2
    /\ last.call = CALL_FREE
    /\ last.returned
    /\ atexit_list = <<"terminate", "report", "collect">>

----------------------------------------------------------------------------
\* C13: none of the five counters ever decreases, whatever the step: a call
\* that succeeds, fails or aborts, or a handler that exit() calls.
C13_CountersNeverDecrease ==
    [][/\ allocations_counter' >= allocations_counter
       /\ frees_counter' >= frees_counter
       /\ bytes_allocated' >= bytes_allocated
       /\ bytes_freed' >= bytes_freed
       /\ bytes_collected' >= bytes_collected]_vars

\* A chunk was resized to a smaller size and collected on exit: every counter
\* has grown, and the live bytes went down twice.
C13_Witness ==
    /\ Len(info_list) = 1
    /\ Len(info_list[1].trace_list) = 3
    /\ info_list[1].trace_list[2].func = CALL_REALLOC
    /\ info_list[1].trace_list[2].size < info_list[1].trace_list[1].size
    /\ allocations_counter > 0 /\ frees_counter > 0
    /\ bytes_allocated > 0 /\ bytes_freed > 0 /\ bytes_collected > 0

----------------------------------------------------------------------------
\* The bookkeeping records the registry holds: every info_t with its trace
\* list, and every trace_t of it, named by their positions.
Records(list) ==
    {<<"info_t", i, 0>> : i \in 1 .. Len(list)}
    \cup {<<"trace_list", i, 0>> : i \in 1 .. Len(list)}
    \cup UNION {{<<"trace_t", i, k>> : k \in 1 .. Len(list[i].trace_list)} :
                   i \in 1 .. Len(list)}

\* C14: __watchdog_terminate can always run to its end when exit() calls it,
\* and leaves the registry empty and deleted: every info_t of the registry,
\* its trace list and every trace_t of it were freed exactly once, a trace_t
\* before the info_t that holds it, and nothing else was freed.
C14_TerminateDestroysAll ==
    /\ [](Calls("terminate") => ENABLED __watchdog_terminate)
    /\ [][Runs("terminate") =>
            /\ freed_records = <<>>
            /\ info_list' = <<>>
            /\ Count(freed_records', <<"info_list", 0, 0>>) = 1
            /\ \A r \in Records(info_list) : Count(freed_records', r) = 1
            /\ Len(freed_records') = Cardinality(Records(info_list)) + 1
            /\ \A m, n \in 1 .. Len(freed_records') :
                  (/\ freed_records'[m][1] = "trace_t"
                   /\ freed_records'[n][1] = "info_t"
                   /\ freed_records'[m][2] = freed_records'[n][2]) => m < n]_vars

\* exit() has called __watchdog_terminate on a registry of two info_t, one of
\* them with two traces.
C14_Witness ==
    /\ Count(ran, "terminate") = 1
    /\ info_list = <<>>
    /\ Count(freed_records, <<"info_t", 2, 0>>) = 1
    /\ Count(freed_records, <<"trace_t", 1, 2>>) = 1
    /\ Count(freed_records, <<"info_list", 0, 0>>) = 1

----------------------------------------------------------------------------
\* The calls that allocate bookkeeping records.
TrackingCalls == {CALL_MALLOC, CALL_CALLOC, CALL_REALLOC, CALL_FREE}

\* C15: when the malloc of an info_t or of a trace_t fails inside
\* __watchdog_allocate, __watchdog_reallocate or __watchdog_free, the assert
\* that follows aborts the process: the function hands nothing back, the
\* call does not return and no step follows.  A call that returns a pointer
\* returns one whose info_t is registered with the trace of that call.
C15_BookkeepingFailureAborts ==
    [][/\ pc = "running" =>
            /\ \A size \in Sizes, file \in Files, line \in Lines,
                  raw \in FreeAddrs(heap), book \in {"info", "trace"},
                  clear \in BOOLEAN :
                  __watchdog_allocate(Tracker, size, clear, file, line, raw,
                                      book).aborted
            /\ \A ptr \in LivePtrs(heap), size \in Sizes, file \in Files,
                  line \in Lines :
                  /\ \A raw \in {ptr} \cup FreeAddrs(heap) :
                        __watchdog_reallocate(Tracker, ptr, size, file, line,
                                              raw, "trace").aborted
                  /\ __watchdog_free(Tracker, ptr, file, line, "trace").aborted
            /\ (last'.call \in TrackingCalls /\ ~last'.returned) =>
                  pc' = "aborted"
            /\ last'.returned => pc' = "running"
            /\ (last'.returned /\ last'.ret # NULL /\ last'.call # CALL_FREE) =>
                  /\ heap'[last'.ret] >= 1
                  /\ info_list'[heap'[last'.ret]].address = last'.ret
                  /\ info_list'[heap'[last'.ret]].allocated
                  /\ chain_back(info_list'[heap'[last'.ret]].trace_list).func
                        = last'.call
                  /\ chain_back(info_list'[heap'[last'.ret]].trace_list).size
                        = last'.size
       /\ pc # "aborted"]_vars

\* A malloc got its raw chunk, then the process was aborted on a bookkeeping
\* malloc: the chunk's header was never written and the call did not return.
C15_Witness ==
    /\ pc = "aborted"
    /\ last.call = CALL_MALLOC
    /\ ~last.returned
    /\ initialized
    /\ \E a \in Addrs : heap[a] = Uninit
    /\ Len(info_list) = 1

----------------------------------------------------------------------------
\* The calls of Alligator that hand back a chunk.
AllocCalls == {CALL_MALLOC, CALL_CALLOC, CALL_REALLOC}

\* C16: alligator_malloc_, alligator_calloc_ and alligator_realloc_ never
\* hand NULL back: when the C library returns NULL, for a request of no byte
\* as for any other, the process is aborted inside the call; a call that
\* returns hands back a live chunk.  alligator_free_ always returns, releases
\* the chunk it is given and changes nothing for NULL.  Nothing is tracked:
\* no registry, no counter, no exit handler.
C16_AlligatorNeverReturnsNull ==
    [][/\ (last'.call \in AllocCalls /\ last'.ret = NULL) =>
            (pc' = "aborted" /\ ~last'.returned)
       /\ (last'.call \in AllocCalls /\ last'.ret # NULL) =>
            /\ pc' = "running" /\ last'.returned
            /\ heap'[last'.ret] # NoChunk
       /\ last'.call = CALL_FREE =>
            /\ pc' = "running" /\ last'.returned
            /\ heap' = IF last'.ptr = NULL THEN heap
                       ELSE [heap EXCEPT ![last'.ptr] = NoChunk]
       /\ UNCHANGED <<stream, initialized, info_list, allocations_counter,
                      frees_counter, bytes_allocated, bytes_freed,
                      bytes_collected, atexit_list, ran, report_out,
                      freed_records>>
       /\ pc # "aborted"]_vars

\* realloc of a live chunk to no byte gave NULL: the process was aborted.
C16_Witness ==
    /\ pc = "aborted"
    /\ last.call = CALL_REALLOC
    /\ last.ptr # NULL
    /\ last.size = 0
    /\ last.ret = NULL
    /\ ~last.returned
    /\ initialized = FALSE

----------------------------------------------------------------------------
\* The info_t at position i got exactly one more trace, at the back of its
\* trace list; an info_t that is new in the registry has only that trace.
OneTraceMore(i) ==
    IF i > Len(info_list) THEN Len(info_list'[i].trace_list) = 1
    ELSE info_list'[i].trace_list
             = Append(info_list[i].trace_list, chain_back(info_list'[i].trace_list))

\* C17: a malloc, calloc or realloc that returns a chunk, and a free that
\* returns, append exactly one trace to exactly one info_t, the new one or
\* the one of the pointer, and leave every other info_t of the registry as it
\* was: trace list, address and flag.  The trace appended is the one of the
\* call.  Until __watchdog_terminate no step of the program takes a trace
\* away or rewrites one.
C17_TraceAppendedToOneInfo ==
    [][/\ (/\ pc = "running"
           /\ last'.call \in TrackingCalls
           /\ last'.returned
           /\ last'.call # CALL_FREE => last'.ret # NULL) =>
            /\ TotalTraces(info_list') = TotalTraces(info_list) + 1
            /\ Len(info_list') =
                  IF last'.call \in {CALL_MALLOC, CALL_CALLOC}
                  THEN Len(info_list) + 1 ELSE Len(info_list)
            /\ \E i \in 1 .. Len(info_list') :
                  /\ i = IF last'.call \in {CALL_MALLOC, CALL_CALLOC}
                          THEN Len(info_list') ELSE heap[last'.ptr]
                  /\ OneTraceMore(i)
                  /\ chain_back(info_list'[i].trace_list).func = last'.call
                  /\ \A j \in 1 .. Len(info_list) :
                        j # i => info_list'[j] = info_list[j]
       /\ ~Runs("terminate") => RegistryKept]_vars

\* A realloc returned for the second of two chunks: its info_t has one trace
\* more, the info_t of the first chunk has the one trace it had.
C17_Witness ==
    /\ pc = "running"
    /\ last.call = CALL_REALLOC
    /\ last.returned
    /\ last.ret # NULL
    /\ Len(info_list) = 2
    /\ heap[last.ret] = 2
    /\ Len(info_list[2].trace_list) = 2
    /\ Len(info_list[1].trace_list) = 1
    /\ info_list[1].allocated

----------------------------------------------------------------------------
\* The functions recorded in the traces of info.
Funcs(info) == [k \in 1 .. Len(info.trace_list) |-> info.trace_list[k].func]

\* C18: every info_t in the registry has at least one trace; its first trace
\* is that of the malloc or calloc that made it and no later one is; it has
\* at most one FREE trace, which is then its last trace and records size 0;
\* it is marked not allocated exactly when its last trace is a FREE trace.
C18_TraceLogShape ==
    \A i \in 1 .. Len(info_list) :
        LET info == info_list[i]
            n == Len(info.trace_list)
        IN  /\ n >= 1
            /\ info.trace_list[1].func \in {CALL_MALLOC, CALL_CALLOC}
            /\ \A k \in 2 .. n :
                  info.trace_list[k].func \in {CALL_REALLOC, CALL_FREE}
            /\ Count(Funcs(info), CALL_FREE) <= 1
            /\ \A k \in 1 .. n :
                  info.trace_list[k].func = CALL_FREE =>
                      (k = n /\ info.trace_list[k].size = 0)
            /\ info.allocated <=> chain_back(info.trace_list).func # CALL_FREE

\* One chunk allocated and freed, a second one still allocated.
C18_Witness ==
    /\ Len(info_list) = 2
    /\ Funcs(info_list[1]) = <<CALL_MALLOC, CALL_FREE>>
    /\ ~info_list[1].allocated
    /\ Funcs(info_list[2]) = <<CALL_CALLOC>>
    /\ info_list[2].allocated

----------------------------------------------------------------------------
\* The info_t of the registry that are marked not allocated.
NotAllocated(list) == {i \in 1 .. Len(list) : ~list[i].allocated}

\* C19: until __watchdog_terminate drains the registry, the registry holds as
\* many info_t as allocations were counted and as many of them are marked not
\* allocated as frees were counted.  A malloc, calloc or realloc that returns
\* NULL changes none of the four.
C19_RegistryMatchesCounters ==
    /\ [](Count(ran, "terminate") = 0 =>
             /\ Len(info_list) = allocations_counter
             /\ Cardinality(NotAllocated(info_list)) = frees_counter)
    /\ [][(/\ pc = "running"
           /\ last'.call \in AllocCalls
           /\ last'.returned
           /\ last'.ret = NULL) =>
              /\ Len(info_list') = Len(info_list)
              /\ allocations_counter' = allocations_counter
              /\ NotAllocated(info_list') = NotAllocated(info_list)
              /\ frees_counter' = frees_counter]_vars

\* One chunk allocated and freed, then a malloc that returned NULL.
C19_Witness ==
    /\ pc = "running"
    /\ last.call = CALL_MALLOC
    /\ last.returned
    /\ last.ret = NULL
    /\ Len(info_list) = 1
    /\ allocations_counter = 1
    /\ ~info_list[1].allocated
    /\ frees_counter = 1

----------------------------------------------------------------------------
\* __watchdog_collect was called and ran to its end.
CollectFinished == Count(ran, "collect") = 1 /\ pc # "aborted"

\* C20: with WATCHDOG_GC set, once __watchdog_collect ran to its end no
\* info_t is marked allocated and no raw chunk is left, as many bytes were
\* freed as allocated, as many frees counted as allocations, and the bytes
\* collected are part of the bytes freed.
C20_CollectBalances ==
    (cfg.gc /\ CollectFinished) =>
        /\ \A i \in 1 .. Len(info_list) : ~info_list[i].allocated
        /\ \A a \in Addrs : heap[a] = NoChunk
        /\ bytes_freed = bytes_allocated
        /\ frees_counter = allocations_counter
        /\ bytes_collected <= bytes_freed

\* Two chunks, the first freed by the program and the second collected on
\* exit; terminate has not run yet.
C20_Witness ==
    /\ cfg.gc
    /\ CollectFinished
    /\ Count(ran, "terminate") = 0
    /\ Len(info_list) = 2
    /\ chain_back(info_list[2].trace_list).file = "<garbage collector>"
    /\ chain_back(info_list[1].trace_list).file # "<garbage collector>"
    /\ bytes_collected > 0
    /\ bytes_collected < bytes_freed

====
